---------------------------- MODULE Spec2Model ----------------------------
(***************************************************************************)
(* EnergyGuard AI (src/energyguard_ai.py): the interactive session of      *)
(* main(), the history it owns, the analytics functions and the rule       *)
(* engine KeenAI.analyze.                                                  *)
(*                                                                         *)
(* Numbers.  The program computes with Python floats.  Here every number   *)
(* is an exact fraction [num, den] (den > 0, lowest terms), so that the    *)
(* comparisons against 1.25, 1.35, 1.15 and 30 and the two roundings are   *)
(* decided exactly.  Rounded results are kept as scaled integers: tenths   *)
(* for round(x, 1), hundredths for round(x, 2) and for the :.2f format.    *)
(* Text typed by the user is a sequence of one-character strings, so that  *)
(* str.lower() and float() are computed character by character.            *)
(***************************************************************************)
EXTENDS Integers, Sequences, FiniteSets, TLC

VARIABLES
    history,      \* EnergyHistory: records, usage_log, recovered_log, remaining_log
    pc,           \* position of main(): prompt, analyse, record, report, ask, done, crashed
    record,       \* local `record` of main (EnergyRecord)
    ratio,        \* local `ratio`
    anomaly,      \* local `anomaly`
    alert,        \* local `alert`
    score,        \* local `score` (tenths)
    recovered,    \* local `recovered` (pair, hundredths of a kWh)
    diagnosis,    \* locals (reasons, actions, confidence) as returned by ai.analyze
    chart,        \* what EnergyGraph.plot last drew (the three series), or <<>>
    out,          \* the last block the session printed
    exc,          \* the exception raised inside the current loop iteration
    call,         \* function applied to stand-alone arguments (pure-function runs)
    result        \* its returned value

vars == <<history, pc, record, ratio, anomaly, alert, score, recovered,
          diagnosis, chart, out, exc, call, result>>

\* The number of readings one explored session accepts.
MaxReadings == 3

(***************************************************************************)
(* Text                                                                    *)
(***************************************************************************)
UpperCase == <<"A","B","C","D","E","F","G","H","I","J","K","L","M",
               "N","O","P","Q","R","S","T","U","V","W","X","Y","Z">>
LowerCase == <<"a","b","c","d","e","f","g","h","i","j","k","l","m",
               "n","o","p","q","r","s","t","u","v","w","x","y","z">>
Digits == <<"0","1","2","3","4","5","6","7","8","9">>

\* str.lower(), one character
LowerChar(c) ==
    IF \E i \in DOMAIN UpperCase : UpperCase[i] = c
    THEN LowerCase[CHOOSE i \in DOMAIN UpperCase : UpperCase[i] = c]
    ELSE c

\* str.lower()
lower(s) == [i \in DOMAIN s |-> LowerChar(s[i])]

IsDigit(c) == \E i \in DOMAIN Digits : Digits[i] = c
DigitVal(c) == (CHOOSE i \in DOMAIN Digits : Digits[i] = c) - 1

RECURSIVE DigitsVal(_)
DigitsVal(s) ==
    IF s = <<>> THEN 0
    ELSE 10 * DigitsVal(SubSeq(s, 1, Len(s) - 1)) + DigitVal(s[Len(s)])

AllDigits(s) == Len(s) > 0 /\ \A i \in DOMAIN s : IsDigit(s[i])

\* float(text) on the texts explored here: an optionally signed run of decimal
\* digits is its value, any other text raises ValueError (returned as <<>>).
\* A parsed value v is returned as <<v>>.
ParseFloat(s) ==
    IF AllDigits(s) THEN <<DigitsVal(s)>>
    ELSE IF Len(s) > 1 /\ s[1] = "-" /\ AllDigits(Tail(s)) THEN <<0 - DigitsVal(Tail(s))>>
    ELSE IF Len(s) > 1 /\ s[1] = "+" /\ AllDigits(Tail(s)) THEN <<DigitsVal(Tail(s))>>
    ELSE <<>>

(***************************************************************************)
(* Exact arithmetic                                                        *)
(***************************************************************************)
Abs(n) == IF n < 0 THEN 0 - n ELSE n

RECURSIVE GCD(_, _)
GCD(a, b) == IF b = 0 THEN a ELSE GCD(b, a % b)

\* the fraction n/d (d # 0) in lowest terms with a positive denominator
Frac(n, d) ==
    LET g == GCD(Abs(n), Abs(d))
        s == IF d < 0 THEN 0 - 1 ELSE 1
    IN  [num |-> (s * n) \div g, den |-> (s * d) \div g]

FracOfInt(n) == [num |-> n, den |-> 1]
FracMul(a, b) == Frac(a.num * b.num, a.den * b.den)
FracSub(a, b) == Frac(a.num * b.den - b.num * a.den, a.den * b.den)
FracAbs(a) == [num |-> Abs(a.num), den |-> a.den]
FracGT(a, b) == a.num * b.den > b.num * a.den
FracGE(a, b) == a.num * b.den >= b.num * a.den
FracMin(a, b) == IF FracGT(a, b) THEN b ELSE a
FracMax(a, b) == IF FracGT(b, a) THEN b ELSE a

\* round(x, digits) and the :.{digits}f format, as the integer x * scale
\* (scale = 10^digits) rounded to nearest, a tie going to the even neighbour.
Round(x, scale) ==
    LET n == x.num * scale
        lo == n \div x.den             \* floor
        twice == 2 * (n - lo * x.den)  \* 2 * remainder, compared with den
    IN  IF twice < x.den THEN lo
        ELSE IF twice > x.den THEN lo + 1
        ELSE IF lo % 2 = 0 THEN lo ELSE lo + 1


(***************************************************************************)
(* EnergyRecord and EnergyHistory                                          *)
(***************************************************************************)
EnergyRecord(usage, expected, sector, time_of_day, sunlight, temperature) ==
    [usage |-> usage, expected |-> expected, sector |-> sector,
     time_of_day |-> time_of_day, sunlight |-> sunlight,
     temperature |-> temperature]

\* EnergyHistory.__init__
EmptyHistory ==
    [records |-> <<>>, usage_log |-> <<>>, recovered_log |-> <<>>,
     remaining_log |-> <<>>]

\* add with the recovered value appended to both kWh logs
add_recovered_twice(h, rec, rcv, rem) ==
    [records |-> Append(h.records, rec),
     usage_log |-> Append(h.usage_log, rec.usage),
     recovered_log |-> Append(h.recovered_log, rcv),
     remaining_log |-> Append(h.remaining_log, rcv)]

\* EnergyHistory.add
add(h, rec, rcv, rem) ==
    [records |-> Append(h.records, rec),
     usage_log |-> Append(h.usage_log, rec.usage),
     recovered_log |-> Append(h.recovered_log, rcv),
     remaining_log |-> Append(h.remaining_log, rem)]

\* EnergyHistory.last_usage: None is <<>>, a usage u is <<u>>
last_usage(h) ==
    IF h.records = <<>> THEN <<>>
    ELSE <<h.records[Len(h.records)].usage>>

(***************************************************************************)
(* EnergyAnalytics                                                         *)
(***************************************************************************)
SpikeFactor == Frac(125, 100)       \* 1.25
CriticalRatio == Frac(135, 100)     \* 1.35
WarningRatio == Frac(115, 100)      \* 1.15
ScoreSlope == FracOfInt(75)
WasteShare == Frac(30, 100)         \* 0.30
RecoveryShare == Frac(80, 100)      \* 0.80

\* usage_ratio: the quotient as <<ratio>>, or <<>> when the float division
\* raises ZeroDivisionError
usage_ratio(rec) ==
    IF rec.expected = 0 THEN <<>>
    ELSE <<Frac(rec.usage, rec.expected)>>

\* detect_anomaly with >= in place of >
detect_anomaly_inclusive(rec, h) ==
    LET last == last_usage(h)
    IN  IF last = <<>> THEN FALSE
        ELSE FracGE(FracOfInt(rec.usage), FracMul(FracOfInt(last[1]), SpikeFactor))

detect_anomaly(rec, h) ==
    LET last == last_usage(h)
    IN  IF last = <<>> THEN FALSE
        ELSE FracGT(FracOfInt(rec.usage), FracMul(FracOfInt(last[1]), SpikeFactor))

\* alert_level with the anomaly looked at after the two ratio tests
alert_level_ratio_first(r, anom) ==
    IF FracGE(r, CriticalRatio) THEN "CRITICAL"
    ELSE IF FracGE(r, WarningRatio) THEN "WARNING"
    ELSE IF anom THEN "CRITICAL"
    ELSE "NORMAL"

alert_level(r, anom) ==
    IF FracGE(r, CriticalRatio) \/ anom THEN "CRITICAL"
    ELSE IF FracGE(r, WarningRatio) THEN "WARNING"
    ELSE "NORMAL"

\* efficiency_score without the floor at 0
efficiency_score_unfloored(r) ==
    LET s == FracSub(FracOfInt(100), FracMul(FracAbs(FracSub(r, FracOfInt(1))), ScoreSlope))
    IN  Round(FracMin(FracOfInt(100), s), 10)

\* efficiency_score, in tenths
efficiency_score(r) ==
    LET s == FracSub(FracOfInt(100), FracMul(FracAbs(FracSub(r, FracOfInt(1))), ScoreSlope))
    IN  Round(FracMax(FracOfInt(0), FracMin(FracOfInt(100), s)), 10)

\* waste_recovery: <<recovered, remaining>>, in hundredths of a kWh
waste_recovery(rec) ==
    LET wasted == FracMul(WasteShare, FracOfInt(rec.usage))
        rcv == FracMul(RecoveryShare, wasted)
        rem == FracSub(wasted, rcv)
    IN  <<Round(rcv, 100), Round(rem, 100)>>

(***************************************************************************)
(* KeenAI.analyze                                                          *)
(***************************************************************************)
TxtDay == <<"d","a","y">>
TxtFactory == <<"f","a","c","t","o","r","y">>
TxtPowerPlant == <<"p","o","w","e","r"," ","p","l","a","n","t">>
TxtYes == <<"y","e","s">>

HotAbove == FracOfInt(30)

\* A text is a sequence of pieces; a formatted number is a piece of its own.
ReasonRatio(r) == <<"Energy usage is ", Round(r, 100), "x expected">>
ReasonSpike == <<"Sudden abnormal spike detected">>
ReasonHeat == <<"High temperature increased cooling demand">>
ReasonSun == <<"Sunlight available but underutilized">>
ReasonIndustrial == <<"High recoverable industrial losses">>

ActRecover(rcv) == <<"HIGH", <<"Recover wasted electricity continuously (~", rcv[1], " kWh)">> >>
ActReserve(rcv) == <<"HIGH", <<"Reserved for system stability (~", rcv[2], " kWh)">> >>
ActNullLine == <<"IMMEDIATE", <<"Activate Null Line to capture leakage">> >>
ActReduce == <<"IMMEDIATE", <<"Reduce non-essential loads">> >>
ActShift == <<"HIGH", <<"Shift base load to geothermal / renewable">> >>
ActMirror == <<"IMMEDIATE", <<"Activate Smart Daylight-Mirroring System">> >>
ActOptimize == <<"MEDIUM", <<"Optimize operating schedule">> >>
ActOptimal == <<"LOW", <<"System operating optimally">> >>

IsHot(rec) == FracGT(FracOfInt(rec.temperature), HotAbove)
IsDaylight(rec) == rec.sunlight /\ lower(rec.time_of_day) = TxtDay
\* the sector test without .lower()
IsIndustrial_case_sensitive(rec) == rec.sector \in {TxtFactory, TxtPowerPlant}
IsIndustrial(rec) == lower(rec.sector) \in {TxtFactory, TxtPowerPlant}

Seq1If(cond, x) == IF cond THEN <<x>> ELSE <<>>
Bonus(cond, points) == IF cond THEN points ELSE 0
Min(a, b) == IF a < b THEN a ELSE b

analyze_reasons(rec, r, anom) ==
    <<ReasonRatio(r)>>
        \o Seq1If(anom, ReasonSpike)
        \o Seq1If(IsHot(rec), ReasonHeat)
        \o Seq1If(IsDaylight(rec), ReasonSun)
        \o Seq1If(IsIndustrial(rec), ReasonIndustrial)

\* analyze's confidence with temperature >= 30 in place of > 30
analyze_confidence_hot_inclusive(rec, anom) ==
    Min(100, 30 + Bonus(anom, 15) + Bonus(rec.temperature >= 30, 10)
               + Bonus(IsDaylight(rec), 15) + Bonus(IsIndustrial(rec), 15))

analyze_confidence(rec, anom) ==
    Min(100, 30 + Bonus(anom, 15) + Bonus(IsHot(rec), 10)
               + Bonus(IsDaylight(rec), 15) + Bonus(IsIndustrial(rec), 15))

\* analyze's actions with the mirroring action tied to sunlight and Day
analyze_actions_mirror_by_day(rec, anom, alrt, rcv) ==
    <<ActRecover(rcv), ActReserve(rcv)>>
        \o Seq1If(anom, ActNullLine)
        \o (IF alrt = "CRITICAL"
            THEN <<ActReduce, ActShift>> \o Seq1If(IsDaylight(rec), ActMirror)
            ELSE IF alrt = "WARNING" THEN <<ActOptimize>>
            ELSE <<ActOptimal>>)

analyze_actions(rec, anom, alrt, rcv) ==
    <<ActRecover(rcv), ActReserve(rcv)>>
        \o Seq1If(anom, ActNullLine)
        \o (IF alrt = "CRITICAL"
            THEN <<ActReduce, ActShift>> \o Seq1If(rec.sunlight, ActMirror)
            ELSE IF alrt = "WARNING" THEN <<ActOptimize>>
            ELSE <<ActOptimal>>)

\* KeenAI.analyze: (reasons, actions, min(100, confidence))
analyze(rec, r, anom, alrt, rcv) ==
    [reasons |-> analyze_reasons(rec, r, anom),
     actions |-> analyze_actions(rec, anom, alrt, rcv),
     confidence |-> analyze_confidence(rec, anom)]


(***************************************************************************)
(* EnergyGraph.plot and AlertDisplay.show                                  *)
(***************************************************************************)
\* EnergyGraph.plot: nothing is drawn for fewer than two readings; otherwise
\* the three series are drawn.  The value is the chart on screen afterwards.
plot(h, shown) ==
    IF Len(h.usage_log) < 2 THEN shown
    ELSE <<h.usage_log, h.recovered_log, h.remaining_log>>

\* AlertDisplay.show: the banner and the score line
show(alrt, scr) ==
    <<"ENERGY STATUS",
      IF alrt = "CRITICAL" THEN "CRITICAL - Immediate optimization required"
      ELSE IF alrt = "WARNING" THEN "WARNING - Efficiency dropping"
      ELSE "NORMAL - System balanced",
      scr>>

(***************************************************************************)
(* What the user types                                                     *)
(***************************************************************************)
UsageTexts == {<<"5","0">>, <<"8","0">>, <<"1","0","0">>, <<"a","b","c">>}
ExpectedTexts == {<<"0">>, <<"8","0">>, <<>>}
SectorTexts == {<<"H","o","m","e">>, <<"F","a","c","t","o","r","y">>}
TimeTexts == {<<"D","a","y">>}
SunlightTexts == {<<"Y","E","S">>, <<"n","o">>}
TemperatureTexts == {<<"3","5">>, <<"h","o","t">>}
AnswerTexts == {<<"y","e","s">>, <<"Y","E","S">>, <<"n","o">>, <<>>}

(***************************************************************************)
(* main()                                                                  *)
(***************************************************************************)
NoRecord == EnergyRecord(0, 0, <<>>, <<>>, FALSE, 0)
NoDiagnosis == [reasons |-> <<>>, actions |-> <<>>, confidence |-> 0]

\* main, lines 161-165: the objects are constructed and the title is printed
Init ==
    /\ history = EmptyHistory
    /\ pc = "prompt"
    /\ record = NoRecord
    /\ ratio = FracOfInt(0)
    /\ anomaly = FALSE
    /\ alert = ""
    /\ score = 0
    /\ recovered = <<0, 0>>
    /\ diagnosis = NoDiagnosis
    /\ chart = <<>>
    /\ out = <<"EnergyGuard AI - Keen Edition V4">>
    /\ exc = "none"
    /\ call = "main"
    /\ result = <<>>

\* the handler starting over with a fresh history
OnValueError_fresh_history ==
    /\ exc' = "ValueError"
    /\ out' = <<"Please enter valid numeric values.">>
    /\ pc' = "prompt"
    /\ history' = EmptyHistory
    /\ UNCHANGED <<record, ratio, anomaly, alert, score, recovered,
                   diagnosis, chart, call, result>>

\* except ValueError: the warning is printed and the loop starts over
OnValueError ==
    /\ exc' = "ValueError"
    /\ out' = <<"Please enter valid numeric values.">>
    /\ pc' = "prompt"
    /\ UNCHANGED <<history, record, ratio, anomaly, alert, score, recovered,
                   diagnosis, chart, call, result>>

\* usage = float(input(...)) raises ValueError
UsageInvalid ==
    /\ pc = "prompt"
    /\ \E u \in UsageTexts : ParseFloat(u) = <<>>
    /\ OnValueError

\* expected = float(input(...)) raises ValueError
ExpectedInvalid ==
    /\ pc = "prompt"
    /\ \E u \in UsageTexts, e \in ExpectedTexts :
          ParseFloat(u) # <<>> /\ ParseFloat(e) = <<>>
    /\ OnValueError

\* temperature = float(input(...)) raises ValueError, after the five other
\* prompts were answered
TemperatureInvalid ==
    /\ pc = "prompt"
    /\ \E u \in UsageTexts, e \in ExpectedTexts, s \in SectorTexts,
          d \in TimeTexts, l \in SunlightTexts, t \in TemperatureTexts :
          ParseFloat(u) # <<>> /\ ParseFloat(e) # <<>> /\ ParseFloat(t) = <<>>
    /\ OnValueError

\* lines 169-178: the six prompts are answered and the record is built
ReadReading ==
    /\ pc = "prompt"
    /\ \E u \in UsageTexts, e \in ExpectedTexts, s \in SectorTexts,
          d \in TimeTexts, l \in SunlightTexts, t \in TemperatureTexts :
          /\ ParseFloat(u) # <<>> /\ ParseFloat(e) # <<>> /\ ParseFloat(t) # <<>>
          /\ record' = EnergyRecord(ParseFloat(u)[1], ParseFloat(e)[1], s, d,
                                    lower(l) = TxtYes, ParseFloat(t)[1])
    /\ exc' = "none"
    /\ pc' = "analyse"
    /\ UNCHANGED <<history, ratio, anomaly, alert, score, recovered, diagnosis,
                   chart, out, call, result>>

\* line 180 raises ZeroDivisionError, which no handler of main catches: the
\* exception leaves main and the interpreter prints the traceback and exits
DivisionByZero ==
    /\ pc = "analyse"
    /\ usage_ratio(record) = <<>>
    /\ exc' = "ZeroDivisionError"
    /\ out' = <<"Traceback (most recent call last)">>
    /\ pc' = "crashed"
    /\ UNCHANGED <<history, record, ratio, anomaly, alert, score, recovered,
                   diagnosis, chart, call, result>>

\* lines 180-184
Analyse ==
    /\ pc = "analyse"
    /\ usage_ratio(record) # <<>>
    /\ ratio' = usage_ratio(record)[1]
    /\ anomaly' = detect_anomaly(record, history)
    /\ alert' = alert_level(ratio', anomaly')
    /\ score' = efficiency_score(ratio')
    /\ recovered' = waste_recovery(record)
    /\ pc' = "record"
    /\ UNCHANGED <<history, record, diagnosis, chart, out, exc, call, result>>

\* line 186
Record ==
    /\ pc = "record"
    /\ history' = add(history, record, recovered[1], recovered[2])
    /\ pc' = "report"
    /\ UNCHANGED <<record, ratio, anomaly, alert, score, recovered, diagnosis,
                   chart, out, exc, call, result>>

\* lines 188-204
Report ==
    /\ pc = "report"
    /\ out' = show(alert, score)
    /\ diagnosis' = analyze(record, ratio, anomaly, alert, recovered)
    /\ chart' = plot(history, chart)
    /\ pc' = "ask"
    /\ UNCHANGED <<history, record, ratio, anomaly, alert, score, recovered,
                   exc, call, result>>

\* line 206, answered yes: the loop starts over
AskAgainYes ==
    /\ pc = "ask"
    /\ Len(history.records) < MaxReadings
    /\ \E a \in AnswerTexts : lower(a) = TxtYes
    /\ pc' = "prompt"
    /\ UNCHANGED <<history, record, ratio, anomaly, alert, score, recovered,
                   diagnosis, chart, out, exc, call, result>>

\* lines 206-208, any other answer: shutdown message and break
AskAgainNo ==
    /\ pc = "ask"
    /\ \E a \in AnswerTexts : lower(a) # TxtYes
    /\ out' = <<"System shutdown complete. Energy optimized">>
    /\ pc' = "done"
    /\ UNCHANGED <<history, record, ratio, anomaly, alert, score, recovered,
                   diagnosis, chart, exc, call, result>>

Next ==
    \/ UsageInvalid
    \/ ExpectedInvalid
    \/ TemperatureInvalid
    \/ ReadReading
    \/ DivisionByZero
    \/ Analyse
    \/ Record
    \/ Report
    \/ AskAgainYes
    \/ AskAgainNo

Spec == Init /\ [][Next]_vars


(***************************************************************************)
(* The functions applied on their own: the arguments are drawn from the    *)
(* sets below and stand in the variables named like main's locals; one     *)
(* step applies the function named by `call` and stores what it returns.   *)
(***************************************************************************)
FnUsages == {0 - 100, 0 - 80, 0, 64, 80, 100, 101}
FnSectors == {<<"H","o","m","e">>, <<"F","a","c","t","o","r","y">>, <<"F","A","C","T","O","R","Y">>, <<"P","o","w","e","r"," ","P","l","a","n","t">>, <<"P","O","W","E","R"," ","P","L","A","N","T">>, <<"P","o","w","e","r","P","l","a","n","t">>, <<"M","i","l","l">>}
FnTimes == {<<"D","a","y">>, <<"D","A","Y">>, <<"N","i","g","h","t">>}
FnTemperatures == {0 - 5, 30, 31}
FnAlerts == {"CRITICAL", "WARNING", "NORMAL", "critical"}
\* ratios around the two alert thresholds
FnAlertRatios ==
    {Frac(n, 20) : n \in (0 - 10) .. 50}
        \cup {Frac(134, 100), Frac(136, 100), Frac(114, 100), Frac(116, 100)}
\* ratios for the score: sixteenths (exact in binary, so the float computation
\* is exact and a rounding tie is a true tie), and thirds, tenths and
\* two-thousandths, whose scores lie away from every rounding tie
FnScoreRatios ==
    {Frac(n, 16) : n \in (0 - 8) .. 40}
        \cup {Frac(2000 + k, 2000) : k \in (0 - 3) .. 3}
        \cup {Frac(n, 3) : n \in (0 - 2) .. 8}
        \cup {Frac(23, 10), Frac(0 - 3, 10)}

FnRecord(u) == EnergyRecord(u, 100, <<"H","o","m","e">>, <<"D","a","y">>, FALSE, 20)
FnHistory(us) == [records |-> [i \in DOMAIN us |-> FnRecord(us[i])],
                  usage_log |-> us,
                  recovered_log |-> [i \in DOMAIN us |-> waste_recovery(FnRecord(us[i]))[1]],
                  remaining_log |-> [i \in DOMAIN us |-> waste_recovery(FnRecord(us[i]))[2]]]
FnHistories ==
    {FnHistory(<<>>)} \cup {FnHistory(<<a>>) : a \in FnUsages}
        \cup {FnHistory(<<a, b>>) : a \in FnUsages, b \in FnUsages}

FnAnalyzeRecords ==
    {EnergyRecord(100, 80, s, d, l, t) :
        s \in FnSectors, d \in FnTimes, l \in BOOLEAN, t \in FnTemperatures}

FnIdle ==
    /\ chart = <<>>
    /\ out = <<>>
    /\ exc = "none"
    /\ score = 0
    /\ diagnosis = NoDiagnosis
    /\ pc = "call"
    /\ result = <<>>

InitDetectAnomaly ==
    /\ call = "detect_anomaly"
    /\ record \in {FnRecord(u) : u \in FnUsages}
    /\ history \in FnHistories
    /\ ratio = FracOfInt(0) /\ anomaly = FALSE /\ alert = "" /\ recovered = <<0, 0>>
    /\ FnIdle

InitAlertLevel ==
    /\ call = "alert_level"
    /\ ratio \in FnAlertRatios
    /\ anomaly \in BOOLEAN
    /\ record = NoRecord /\ history = EmptyHistory /\ alert = "" /\ recovered = <<0, 0>>
    /\ FnIdle

InitEfficiencyScore ==
    /\ call = "efficiency_score"
    /\ ratio \in FnScoreRatios
    /\ record = NoRecord /\ history = EmptyHistory /\ anomaly = FALSE /\ alert = ""
    /\ recovered = <<0, 0>>
    /\ FnIdle

InitAnalyze ==
    /\ call = "analyze"
    /\ record \in FnAnalyzeRecords
    /\ ratio = usage_ratio(record)[1]
    /\ anomaly \in BOOLEAN
    /\ alert \in FnAlerts
    /\ recovered = waste_recovery(record)
    /\ history = EmptyHistory
    /\ FnIdle

InitFn == InitDetectAnomaly \/ InitAlertLevel \/ InitEfficiencyScore \/ InitAnalyze

Returned(v) ==
    /\ pc = "call"
    /\ result' = <<v>>
    /\ pc' = "returned"
    /\ UNCHANGED <<history, record, ratio, anomaly, alert, score, recovered,
                   diagnosis, chart, out, exc, call>>

ApplyDetectAnomaly == call = "detect_anomaly" /\ Returned(detect_anomaly(record, history))
ApplyAlertLevel == call = "alert_level" /\ Returned(alert_level(ratio, anomaly))
ApplyEfficiencyScore == call = "efficiency_score" /\ Returned(efficiency_score(ratio))
ApplyAnalyze == call = "analyze" /\ Returned(analyze(record, ratio, anomaly, alert, recovered))

NextFn ==
    \/ ApplyDetectAnomaly
    \/ ApplyAlertLevel
    \/ ApplyEfficiencyScore
    \/ ApplyAnalyze

SpecFn == InitFn /\ [][NextFn]_vars

\* the session and the stand-alone applications together
InitAll == Init \/ InitFn
NextAll == Next \/ NextFn
SpecAll == InitAll /\ [][NextAll]_vars


(***************************************************************************)
(* Properties                                                              *)
(***************************************************************************)
InSession == call = "main"
Ended == {"done", "crashed"}
\* positions of main at which the locals of lines 180-184 belong to `record`
Analysed == {"record", "report", "ask", "done"}
\* positions at which `record` is the last entry of the history
Recorded == {"report", "ask", "done"}

\* C1: a reading with expected == 0, once analysed, has produced a defined
\* validation error; no division by zero is left unhandled (the session has
\* not crashed on a ZeroDivisionError).
C1_ZeroExpectedIsValidationError ==
    (InSession /\ pc # "analyse" /\ record # NoRecord /\ record.expected = 0)
        => (pc # "crashed" /\ exc = "ValidationError")

\* C1: a reading with expected == 0 is about to be analysed
C1_Witness == InSession /\ pc = "analyse" /\ record.expected = 0

\* C2: every failure in the loop is non-fatal (a step that raises an exception
\* goes back to the prompt), and the session ends only from the question
\* "Add another entry?".
C2_OnlyUserExitEndsSession ==
    [][/\ (exc' # "none" /\ pc \in {"prompt", "analyse"}) => pc' = "prompt"
       /\ (pc \notin Ended /\ pc' \in Ended) => (pc = "ask" /\ pc' = "done")]_vars

\* C2: the session is analysing a reading whose expected usage is zero
C2_Witness == InSession /\ pc = "analyse" /\ usage_ratio(record) = <<>>

\* the spike test in whole numbers: usage strictly above 1.25 times prev
C3_Spike(usage, prev) == 100 * usage > 125 * prev

\* C3: detect_anomaly is false on an empty history and otherwise true exactly
\* when the usage is strictly above 1.25 times the usage of the last recorded
\* reading; in a session the flag of the k-th reading compares it with the
\* (k-1)-th recorded reading only.
C3_AnomalyAgainstPreviousOnly ==
    /\ (pc = "returned" /\ call = "detect_anomaly") =>
          LET n == Len(history.records)
          IN  result[1] = (n > 0 /\ C3_Spike(record.usage, history.records[n].usage))
    /\ (InSession /\ pc = "record") =>
          LET n == Len(history.records)
          IN  anomaly = (n > 0 /\ C3_Spike(record.usage, history.usage_log[n]))
    /\ (InSession /\ pc \in Recorded) =>
          LET k == Len(history.records)
          IN  /\ history.records[k] = record
              /\ anomaly = (k > 1 /\ C3_Spike(history.records[k].usage,
                                              history.records[k - 1].usage))

\* C3: a third reading that is no spike over the second although it is one
\* over the first
C3_Witness ==
    /\ InSession /\ pc = "ask"
    /\ history.usage_log = <<50, 100, 100>>
    /\ ~anomaly

C4_AtLeast(r, hundredths) == 100 * r.num >= hundredths * r.den
C4_Level(r, anom) ==
    IF C4_AtLeast(r, 135) \/ anom THEN "CRITICAL"
    ELSE IF C4_AtLeast(r, 115) THEN "WARNING"
    ELSE "NORMAL"

\* C4: alert_level is CRITICAL iff ratio >= 1.35 or anomaly, otherwise WARNING
\* iff ratio >= 1.15, otherwise NORMAL; in a session an anomalous reading is
\* never WARNING or NORMAL.
C4_AlertPrecedence ==
    /\ (pc = "returned" /\ call = "alert_level") =>
          /\ result[1] \in {"CRITICAL", "WARNING", "NORMAL"}
          /\ result[1] = C4_Level(ratio, anomaly)
          /\ anomaly => result[1] = "CRITICAL"
    /\ (InSession /\ pc \in Analysed) =>
          /\ alert = C4_Level(ratio, anomaly)
          /\ anomaly => alert \notin {"WARNING", "NORMAL"}

\* C4: an anomalous reading whose ratio is exactly 1 is CRITICAL
C4_Witness ==
    /\ InSession /\ pc \in Analysed
    /\ anomaly /\ ratio = FracOfInt(1) /\ alert = "CRITICAL"

C5_Aligned(h) ==
    /\ Len(h.usage_log) = Len(h.records)
    /\ Len(h.recovered_log) = Len(h.records)
    /\ Len(h.remaining_log) = Len(h.records)
    /\ \A i \in DOMAIN h.records :
          /\ h.usage_log[i] = h.records[i].usage
          /\ 100 * h.recovered_log[i] = 24 * 100 * h.records[i].usage
          /\ 100 * h.remaining_log[i] = 6 * 100 * h.records[i].usage
C5_IsPrefix(a, b) == Len(a) <= Len(b) /\ SubSeq(b, 1, Len(a)) = a

\* C5: the four logs of the history stay aligned (same length, entry i from
\* the i-th reading); line 186 appends exactly one entry to each and changes
\* no earlier entry; every other step leaves the history as it is.
C5_HistoryAppendOnly ==
    /\ [](InSession => C5_Aligned(history))
    /\ [][InSession =>
            IF pc = "record"
            THEN /\ Len(history'.records) = Len(history.records) + 1
                 /\ history'.records[Len(history'.records)] = record
                 /\ C5_IsPrefix(history.records, history'.records)
                 /\ C5_IsPrefix(history.usage_log, history'.usage_log)
                 /\ C5_IsPrefix(history.recovered_log, history'.recovered_log)
                 /\ C5_IsPrefix(history.remaining_log, history'.remaining_log)
            ELSE history' = history]_vars

\* C5: three readings recorded, reported and plotted
C5_Witness ==
    /\ InSession /\ pc = "ask"
    /\ Len(history.records) = 3
    /\ chart = <<history.usage_log, history.recovered_log, history.remaining_log>>


AnalyzeReturned == pc = "returned" /\ call = "analyze"
SameIgnoringCase(a, b) ==
    Len(a) = Len(b) /\ \A i \in DOMAIN a : LowerChar(a[i]) = LowerChar(b[i])

C6_Triggers(rec, anom) ==
    <<anom,
      rec.temperature > 30,
      rec.sunlight /\ SameIgnoringCase(rec.time_of_day, <<"D","a","y">>),
      SameIgnoringCase(rec.sector, <<"F","a","c","t","o","r","y">>)
          \/ SameIgnoringCase(rec.sector, <<"P","o","w","e","r"," ","P","l","a","n","t">>)>>
C6_Points == <<15, 10, 15, 15>>
C6_Sum(t) ==
    30 + (IF t[1] THEN C6_Points[1] ELSE 0) + (IF t[2] THEN C6_Points[2] ELSE 0)
       + (IF t[3] THEN C6_Points[3] ELSE 0) + (IF t[4] THEN C6_Points[4] ELSE 0)

\* C6: the confidence is min(100, 30 + 15[anomaly] + 10[temperature > 30]
\* + 15[sunlight and Day] + 15[industrial sector]); it is an integer between
\* 30 and 100; switching triggers on, the others fixed, never lowers it.
C6_ConfidenceFormula ==
    AnalyzeReturned =>
        LET c == result[1].confidence
            t == C6_Triggers(record, anomaly)
        IN  /\ c = (IF C6_Sum(t) > 100 THEN 100 ELSE C6_Sum(t))
            /\ c \in 30 .. 100
            /\ \A rec2 \in FnAnalyzeRecords, an2 \in BOOLEAN :
                  (\A i \in 1 .. 4 : t[i] => C6_Triggers(rec2, an2)[i])
                      => analyze(rec2, ratio, an2, alert, recovered).confidence >= c

\* C6: all four triggers hold and the confidence is 85
C6_Witness ==
    /\ AnalyzeReturned
    /\ C6_Triggers(record, anomaly) = <<TRUE, TRUE, TRUE, TRUE>>
    /\ result[1].confidence = 85

C8_Levels(a) == [i \in DOMAIN a |-> a[i][1]]
C8_Branch(alrt, sun) ==
    IF alrt = "CRITICAL"
    THEN IF sun THEN <<ActReduce, ActShift, ActMirror>> ELSE <<ActReduce, ActShift>>
    ELSE IF alrt = "WARNING" THEN <<ActOptimize>>
    ELSE <<ActOptimal>>

\* C8: the action list starts with the two HIGH actions recover, reserve; the
\* IMMEDIATE leak-capture action is present iff anomaly, right after them;
\* then comes exactly one alert branch: CRITICAL (IMMEDIATE reduce, HIGH shift,
\* and IMMEDIATE daylight mirroring iff sunlight), WARNING (MEDIUM only), or,
\* for any other alert value, LOW only.
C8_ActionListShape ==
    AnalyzeReturned =>
        LET a == result[1].actions
            k == IF anomaly THEN 3 ELSE 2
            rest == SubSeq(a, k + 1, Len(a))
        IN  /\ Len(a) > k
            /\ a[1] = ActRecover(recovered) /\ a[2] = ActReserve(recovered)
            /\ a[1][1] = "HIGH" /\ a[2][1] = "HIGH"
            /\ anomaly <=> (\E i \in DOMAIN a : a[i] = ActNullLine)
            /\ anomaly => (a[3] = ActNullLine /\ a[3][1] = "IMMEDIATE")
            /\ rest = C8_Branch(alert, record.sunlight)
            /\ C8_Levels(rest) =
                  (IF alert = "CRITICAL"
                   THEN IF record.sunlight THEN <<"IMMEDIATE", "HIGH", "IMMEDIATE">>
                        ELSE <<"IMMEDIATE", "HIGH">>
                   ELSE IF alert = "WARNING" THEN <<"MEDIUM">> ELSE <<"LOW">>)

\* C8: the leak-capture action together with the WARNING branch
C8_Witness ==
    /\ AnalyzeReturned
    /\ anomaly /\ alert = "WARNING"
    /\ result[1].actions =
          <<ActRecover(recovered), ActReserve(recovered), ActNullLine, ActOptimize>>

C9_HasBonus(rec, anom, res) ==
    /\ \E i \in DOMAIN res.reasons : res.reasons[i] = ReasonIndustrial
    /\ res.confidence = C6_Sum(<<anom, rec.temperature > 30,
                                 rec.sunlight /\ SameIgnoringCase(rec.time_of_day, <<"D","a","y">>),
                                 TRUE>>)
C9_NoBonus(rec, anom, res) ==
    /\ \A i \in DOMAIN res.reasons : res.reasons[i] # ReasonIndustrial
    /\ res.confidence = C6_Sum(<<anom, rec.temperature > 30,
                                 rec.sunlight /\ SameIgnoringCase(rec.time_of_day, <<"D","a","y">>),
                                 FALSE>>)

\* C9 as stated: the industrial-losses reason and its 15 points are added iff
\* the sector, compared case-insensitively, is Factory or PowerPlant; any
\* other sector adds neither.
C9_IndustrialIffFactoryOrPowerPlant ==
    AnalyzeReturned =>
        IF SameIgnoringCase(record.sector, <<"F","a","c","t","o","r","y">>)
              \/ SameIgnoringCase(record.sector, <<"P","o","w","e","r","P","l","a","n","t">>)
        THEN C9_HasBonus(record, anomaly, result[1])
        ELSE C9_NoBonus(record, anomaly, result[1])

\* C9 amended: the industrial-losses reason and its 15 points are added iff
\* the sector, compared case-insensitively, is "factory" or "power plant" (two
\* words with one space); any other sector text, "PowerPlant" included, adds
\* neither.
C9_IndustrialIffFactoryOrPowerSpacePlant ==
    AnalyzeReturned =>
        IF SameIgnoringCase(record.sector, <<"F","a","c","t","o","r","y">>)
              \/ SameIgnoringCase(record.sector, <<"P","o","w","e","r"," ","P","l","a","n","t">>)
        THEN C9_HasBonus(record, anomaly, result[1])
        ELSE C9_NoBonus(record, anomaly, result[1])

\* C9: the sector POWER PLANT got the industrial-losses reason
C9_Witness ==
    /\ AnalyzeReturned
    /\ record.sector = <<"P","O","W","E","R"," ","P","L","A","N","T">>
    /\ C9_HasBonus(record, anomaly, result[1])

ScoreReturned == pc = "returned" /\ call = "efficiency_score"
C10_Deviation(r) == FracAbs(FracSub(r, FracOfInt(1)))
\* 100 - 75 * |r - 1|, clamped to [0, 100]
C10_Clamped(r) ==
    LET raw == FracSub(FracOfInt(100), FracMul(FracOfInt(75), C10_Deviation(r)))
    IN  IF FracGT(FracOfInt(0), raw) THEN FracOfInt(0)
        ELSE IF FracGT(raw, FracOfInt(100)) THEN FracOfInt(100)
        ELSE raw
\* s tenths is a nearest tenth of x
C10_NearestTenth(s, x) == 2 * Abs(s * x.den - 10 * x.num) <= x.den

C10_Common(r, s) ==
    /\ s \in 0 .. 1000
    /\ C10_NearestTenth(s, C10_Clamped(r))
    /\ r = FracOfInt(1) => s = 1000
    /\ \A r2 \in FnScoreRatios :
          /\ FracSub(r2, FracOfInt(1)) = FracSub(FracOfInt(1), r)
                => efficiency_score(r2) = s
          /\ FracGE(C10_Deviation(r2), C10_Deviation(r))
                => efficiency_score(r2) <= s
    /\ FracGE(C10_Deviation(r), Frac(4, 3)) => s = 0

\* C10 as stated: the score is 100 - 75|ratio - 1| clamped to [0, 100] and
\* rounded to one decimal, lies in [0, 100], is 100 exactly when ratio = 1, is
\* symmetric around 1, never increases with |ratio - 1| and is 0 from 4/3 on.
C10_ScoreIs100OnlyAtRatio1 ==
    ScoreReturned =>
        /\ C10_Common(ratio, result[1])
        /\ result[1] = 1000 => ratio = FracOfInt(1)

\* C10 amended: as stated, but the score is 100 whenever ratio = 1 and, by the
\* rounding, for every ratio with 75|ratio - 1| < 0.05; it is below 100 when
\* 75|ratio - 1| > 0.05.
C10_ScoreRounded ==
    ScoreReturned =>
        /\ C10_Common(ratio, result[1])
        /\ FracGT(Frac(1, 20), FracMul(FracOfInt(75), C10_Deviation(ratio)))
              => result[1] = 1000
        /\ FracGT(FracMul(FracOfInt(75), C10_Deviation(ratio)), Frac(1, 20))
              => result[1] < 1000

\* C10: ratio 1.0005 is scored 100.0
C10_Witness ==
    /\ ScoreReturned
    /\ ratio = Frac(2001, 2000)
    /\ result[1] = 1000

\* C7: when a numeric field does not parse, nothing of lines 176-204 runs: the
\* history and the analysis locals stay as they were, the warning is printed
\* and the loop prompts again; a later valid reading is compared with the
\* last recorded one.
C7_ParseFailureLeavesCoreUntouched ==
    [][InSession =>
          /\ (pc = "prompt" /\ pc' # "analyse") =>
                /\ history' = history
                /\ <<record, ratio, anomaly, alert, score, recovered, diagnosis, chart>>'
                      = <<record, ratio, anomaly, alert, score, recovered, diagnosis, chart>>
                /\ exc' = "ValueError"
                /\ out' = <<"Please enter valid numeric values.">>
                /\ pc' = "prompt"
          /\ (pc = "analyse" /\ pc' = "record") =>
                LET n == Len(history.records)
                IN  anomaly' = (n > 0 /\ C3_Spike(record.usage, history.records[n].usage))]_vars

\* C7: a parse failure after two readings were recorded
C7_Witness ==
    /\ InSession /\ pc = "prompt" /\ exc = "ValueError"
    /\ out = <<"Please enter valid numeric values.">>
    /\ Len(history.records) = 2

=============================================================================
